---- MODULE Spec2Model ----
(***************************************************************************)
(* Model of the DCA trading bot of src/stock_trader.py (StockTrader and    *)
(* execute_trading) over the store of src/db.py.                           *)
(*                                                                         *)
(* Python floats are modelled as exact rationals <<numerator, denominator>>*)
(* in lowest terms, so that the code's divisions are computed, not         *)
(* abstracted.  The modules chia, stock, constant and pools are external: *)
(* their results (quotes, reference price, order acceptance, market state, *)
(* reconciliation) are inputs drawn from small sets.  Spec starts from an   *)
(* empty store, SpecLoaded from the store an earlier run left behind.      *)
(* What is only logged (stock_balance, the balance summary) and the wallet *)
(* id carry no state here.                                                 *)
(***************************************************************************)
EXTENDS Integers, Sequences, FiniteSets, TLC

\* ------------------------------------------------------------ bounds
\* Number of iterations of the `while True` loop that are explored.
MaxTicks == 3

\* ------------------------------------------------------ configuration
\* CONFIG["TRADING_SYMBOLS"], in the order the loop visits them.
TRADING_SYMBOLS == <<"S1", "S2">>
Symbols == {TRADING_SYMBOLS[i] : i \in 1..Len(TRADING_SYMBOLS)}
\* CONFIG["SELL_ONLY_SYMBOLS"]
SELL_ONLY_SYMBOLS == {"S2"}
\* CONFIG["MAX_BUY_TIMES"]
MAX_BUY_TIMES == 2
\* CONFIG["BUY_PERCENTAGE"] * CONFIG["INVESTED_XCH"], the funding increment
BUY_XCH == <<10, 1>>
\* CONFIG["MIN_PROFIT"] = 0.1
MIN_PROFIT == <<1, 10>>
\* CONFIG["DCA_PERCENTAGE"] = 0.05
DCA_PERCENTAGE == <<1, 20>>
\* CONFIG["MAX_LOSS_PERCENTAGE"] = 0.2
MAX_LOSS_PERCENTAGE == <<1, 5>>

\* ------------------------------------------------------------- inputs
\* Unit prices a quote can carry; 0 is the "unavailable" sentinel.
Prices == {0, 20, 30, 50, 60}
\* get_stock_price_from_dinari: (bid, ask); both are 0 when unavailable
Quotes == {<<0, 0>>, <<20, 30>>, <<50, 50>>, <<50, 60>>, <<60, 60>>}
\* get_xch_price: the prices it can return (None is the action XchPriceFail)
XchPrices == {100}

\* time.sleep(300): after a failed reference price (line 122) and while the
\* market is closed (line 159)
LongSleep == 300
\* time.sleep(60): between ticks while the market is open (line 157)
ShortSleep == 60

\* ---------------------------------------------------------- rationals
Abs(x) == IF x < 0 THEN -x ELSE x

RECURSIVE GCD(_, _)
GCD(a, b) == IF b = 0 THEN a ELSE GCD(b, a % b)

Norm(n, d) ==
    LET g == GCD(Abs(n), Abs(d))
        s == IF d < 0 THEN -1 ELSE 1
    IN  <<(s * n) \div g, (s * d) \div g>>

Zero == <<0, 1>>
One == <<1, 1>>
Rat(n) == <<n, 1>>
RAdd(a, b) == Norm(a[1] * b[2] + b[1] * a[2], a[2] * b[2])
RSub(a, b) == Norm(a[1] * b[2] - b[1] * a[2], a[2] * b[2])
RMul(a, b) == Norm(a[1] * b[1], a[2] * b[2])
\* a / b for b # 0 (Python raises ZeroDivisionError otherwise)
RDiv(a, b) == Norm(a[1] * b[2], a[2] * b[1])
RNeg(a) == <<-a[1], a[2]>>
RLt(a, b) == a[1] * b[2] < b[1] * a[2]
RGeq(a, b) == ~RLt(a, b)
RGt(a, b) == RLt(b, a)

\* -------------------------------------------------------------- state
VARIABLES
    traders,     \* symbol -> the StockTrader object's fields
    positions,   \* table positions: symbol -> row
    trades,      \* table trades: sequence of rows, in insertion order
    xch_price,   \* the reference price of the current tick
    idx,         \* index of the `for trader in traders` loop
    pc,          \* position of execute_trading
    now,         \* the clock (datetime.now()), one unit per tick
    step,        \* history: how the current loop iteration was entered
    call,        \* history: the last Position operation that was called
    accepted,    \* history: symbol -> orders the gateway accepted, by side
    slept,       \* the argument of the time.sleep in progress, 0 when awake
    ticklog      \* history: what the current tick has done so far

vars == <<traders, positions, trades, xch_price, idx, pc, now, step, call, accepted,
          slept, ticklog>>

\* No order was handed to send_asset.
NoOrder == [side |-> "NONE", request |-> Zero, offer |-> Zero, accepted |-> FALSE]

\* StockTrader.__init__: the fields before load_position.
NewTrader ==
    [volume |-> Zero, buy_count |-> 0, last_buy_price |-> Zero, total_cost |-> Zero,
     avg_price |-> Zero, current_price |-> Zero, profit |-> Zero,
     position_status |-> "TRADABLE", last_updated |-> 0]

\* Mutant of PositionRow: last_buy_price and avg_price in each other's column.
PositionRow_swapsColumns(t, stamp) ==
    [volume |-> t.volume, buy_count |-> t.buy_count, last_buy_price |-> t.avg_price,
     total_cost |-> t.total_cost, avg_price |-> t.last_buy_price,
     current_price |-> t.current_price, profit |-> t.profit,
     status |-> t.position_status, last_updated |-> stamp]

\* db.create_position / db.update_position: the row written for a trader.
PositionRow(t, stamp) ==
    [volume |-> t.volume, buy_count |-> t.buy_count, last_buy_price |-> t.last_buy_price,
     total_cost |-> t.total_cost, avg_price |-> t.avg_price,
     current_price |-> t.current_price, profit |-> t.profit,
     status |-> t.position_status, last_updated |-> stamp]

\* db.record_trade: append one row.  The callers (lines 63, 79, 103) pass six
\* values (stock, action, price, volume, amount, profit) and line 92 reads
\* amount / volume back, while the signature and the table of db.py list
\* five, without the amount, and db.py has no get_last_trade: the ledger is
\* modelled as the interface stock_trader.py is written for, the
\* appendTrade / lastTrade of the description.
record_trade(tr, stock, action, price, volume, amount, profit, stamp) ==
    Append(tr, [stock |-> stock, action |-> action, price |-> price, volume |-> volume,
                amount |-> amount, profit |-> profit, timestamp |-> stamp])

\* db.get_last_trade: the most recent row of the symbol, or None (<<>>).
get_last_trade(tr, stock) ==
    LET own == {i \in 1..Len(tr) : tr[i].stock = stock}
    IN  IF own = {} THEN <<>>
        ELSE <<tr[CHOOSE i \in own : \A j \in own : j <= i]>>

\* volume * current_price / xch_price / total_cost - 1 (total_cost # 0)
ProfitOf(volume, price, xp, total_cost) ==
    RSub(RDiv(RDiv(RMul(volume, price), xp), total_cost), One)

\* ---------------------------------------------- StockTrader operations
\* Each operation is a function of the object, the ledger and the gateway's
\* answers (q: the quote fetched, ok: send_asset's result); it returns the
\* object and ledger after the call, the order handed to send_asset, and
\* whether the call raised.
Outcome(t, tr, order) == [t |-> t, trades |-> tr, order |-> order, raised |-> FALSE,
                          repurchase |-> FALSE]

\* Mutant of Bought: total_cost is assigned, not added to.
Bought_overwritesCost(t, price, volume, xch_volume, xp, stamp) ==
    LET new_volume == RAdd(t.volume, volume)
        new_cost == xch_volume
    IN  [t EXCEPT !.volume = new_volume,
                  !.last_buy_price = price,
                  !.total_cost = new_cost,
                  !.avg_price = RDiv(new_cost, new_volume),
                  !.current_price = price,
                  !.profit = ProfitOf(new_volume, price, xp, new_cost),
                  !.position_status = "PENDING_BUY",
                  !.buy_count = t.buy_count + 1,
                  !.last_updated = stamp]

\* Mutant of Bought: avg_price is computed before total_cost is updated.
Bought_staleAvg(t, price, volume, xch_volume, xp, stamp) ==
    LET new_volume == RAdd(t.volume, volume)
        new_cost == RAdd(t.total_cost, xch_volume)
    IN  [t EXCEPT !.volume = new_volume,
                  !.last_buy_price = price,
                  !.total_cost = new_cost,
                  !.avg_price = RDiv(t.total_cost, new_volume),
                  !.current_price = price,
                  !.profit = ProfitOf(new_volume, price, xp, new_cost),
                  !.position_status = "PENDING_BUY",
                  !.buy_count = t.buy_count + 1,
                  !.last_updated = stamp]

\* buy_stock lines 54-62: the object after an accepted buy order.
Bought(t, price, volume, xch_volume, xp, stamp) ==
    LET new_volume == RAdd(t.volume, volume)
        new_cost == RAdd(t.total_cost, xch_volume)
    IN  [t EXCEPT !.volume = new_volume,
                  !.last_buy_price = price,
                  !.total_cost = new_cost,
                  !.avg_price = RDiv(new_cost, new_volume),
                  !.current_price = price,
                  !.profit = ProfitOf(new_volume, price, xp, new_cost),
                  !.position_status = "PENDING_BUY",
                  !.buy_count = t.buy_count + 1,
                  !.last_updated = stamp]

\* Mutant of buy_stock: the fetched price is stored in the object before it
\* is checked, as sell_stock and handle_price_drop do.
buy_stock_storesPrice(t, stock, tr, xch_volume, xp, q, ok, stamp) ==
    LET price == Rat(q[2])
        t1 == [t EXCEPT !.current_price = price]
        volume == RDiv(RMul(xch_volume, xp), price)
        order == [side |-> "BUY", request |-> volume, offer |-> xch_volume, accepted |-> ok]
    IN  IF stock \in SELL_ONLY_SYMBOLS THEN Outcome(t, tr, NoOrder)
        ELSE IF price = Zero THEN Outcome(t1, tr, NoOrder)
        ELSE IF ~ok THEN Outcome(t1, tr, order)
        ELSE Outcome(Bought(t, price, volume, xch_volume, xp, stamp),
                     record_trade(tr, stock, "BUY", price, volume, xch_volume, Zero, stamp),
                     order)

\* Mutant of buy_stock: the cost is booked before send_asset is asked, so a
\* rejected order leaves it on the position.
buy_stock_chargesFirst(t, stock, tr, xch_volume, xp, q, ok, stamp) ==
    LET price == Rat(q[2])
        volume == RDiv(RMul(xch_volume, xp), price)
        order == [side |-> "BUY", request |-> volume, offer |-> xch_volume, accepted |-> ok]
    IN  IF stock \in SELL_ONLY_SYMBOLS THEN Outcome(t, tr, NoOrder)
        ELSE IF price = Zero THEN Outcome(t, tr, NoOrder)
        ELSE IF ~ok
             THEN Outcome([t EXCEPT !.total_cost = RAdd(t.total_cost, xch_volume)], tr, order)
        ELSE Outcome(Bought(t, price, volume, xch_volume, xp, stamp),
                     record_trade(tr, stock, "BUY", price, volume, xch_volume, Zero, stamp),
                     order)

\* Mutant of buy_stock: the deny-list is not consulted.
buy_stock_ignoresDenyList(t, stock, tr, xch_volume, xp, q, ok, stamp) ==
    LET price == Rat(q[2])
        volume == RDiv(RMul(xch_volume, xp), price)
        order == [side |-> "BUY", request |-> volume, offer |-> xch_volume, accepted |-> ok]
    IN  IF price = Zero THEN Outcome(t, tr, NoOrder)
        ELSE IF ~ok THEN Outcome(t, tr, order)
        ELSE Outcome(Bought(t, price, volume, xch_volume, xp, stamp),
                     record_trade(tr, stock, "BUY", price, volume, xch_volume, Zero, stamp),
                     order)

\* Mutant of buy_stock: the quantity is computed without the reference
\* price.
buy_stock_noRefPrice(t, stock, tr, xch_volume, xp, q, ok, stamp) ==
    LET price == Rat(q[2])
        volume == RDiv(xch_volume, price)
        order == [side |-> "BUY", request |-> volume, offer |-> xch_volume, accepted |-> ok]
    IN  IF stock \in SELL_ONLY_SYMBOLS THEN Outcome(t, tr, NoOrder)
        ELSE IF price = Zero THEN Outcome(t, tr, NoOrder)
        ELSE IF ~ok THEN Outcome(t, tr, order)
        ELSE Outcome(Bought(t, price, volume, xch_volume, xp, stamp),
                     record_trade(tr, stock, "BUY", price, volume, xch_volume, Zero, stamp),
                     order)

\* StockTrader.buy_stock(xch_volume, xch_price)
buy_stock(t, stock, tr, xch_volume, xp, q, ok, stamp) ==
    LET price == Rat(q[2])
        volume == RDiv(RMul(xch_volume, xp), price)
        order == [side |-> "BUY", request |-> volume, offer |-> xch_volume, accepted |-> ok]
    IN  IF stock \in SELL_ONLY_SYMBOLS THEN Outcome(t, tr, NoOrder)
        ELSE IF price = Zero THEN Outcome(t, tr, NoOrder)
        ELSE IF ~ok THEN Outcome(t, tr, order)
        ELSE Outcome(Bought(t, price, volume, xch_volume, xp, stamp),
                     record_trade(tr, stock, "BUY", price, volume, xch_volume, Zero, stamp),
                     order)

\* Mutant of ShouldSell: the threshold with the wrong sign.
ShouldSell_signSlip(profit, liquid) == RGeq(profit, RNeg(MIN_PROFIT)) \/ liquid

\* sell_stock line 73: the condition under which the sell order is sent.
ShouldSell(profit, liquid) == RGeq(profit, MIN_PROFIT) \/ liquid

\* Mutant of sell_stock: the object is stamped when the order is sent, not
\* when it is accepted.
sell_stock_stampsFirst(t, stock, tr, xp, liquid, q, ok, stamp) ==
    LET cur == Rat(q[1])
        t1 == [t EXCEPT !.current_price = cur]
        request_xch == RDiv(RMul(t.volume, cur), xp)
        profit == RSub(RDiv(request_xch, t.total_cost), One)
        t2 == [t1 EXCEPT !.profit = profit]
        order == [side |-> "SELL", request |-> request_xch, offer |-> t.volume,
                  accepted |-> ok]
    IN  IF cur = Zero THEN Outcome(t1, tr, NoOrder)
        ELSE IF t.total_cost = Zero
             THEN [Outcome(t1, tr, NoOrder) EXCEPT !.raised = TRUE]
        ELSE IF ShouldSell(profit, liquid)
             THEN IF ~ok THEN Outcome([t2 EXCEPT !.last_updated = stamp], tr, order)
                  ELSE Outcome([t2 EXCEPT !.position_status = "PENDING_SELL",
                                          !.last_updated = stamp],
                               record_trade(tr, stock, "SELL", cur, t.volume,
                                            t.total_cost, profit, stamp),
                               order)
        ELSE Outcome(t2, tr, NoOrder)

\* Mutant of sell_stock: an accepted sell books the liquidation at once.
sell_stock_liquidates(t, stock, tr, xp, liquid, q, ok, stamp) ==
    LET cur == Rat(q[1])
        t1 == [t EXCEPT !.current_price = cur]
        request_xch == RDiv(RMul(t.volume, cur), xp)
        profit == RSub(RDiv(request_xch, t.total_cost), One)
        t2 == [t1 EXCEPT !.profit = profit]
        order == [side |-> "SELL", request |-> request_xch, offer |-> t.volume,
                  accepted |-> ok]
    IN  IF cur = Zero THEN Outcome(t1, tr, NoOrder)
        ELSE IF t.total_cost = Zero
             THEN [Outcome(t1, tr, NoOrder) EXCEPT !.raised = TRUE]
        ELSE IF ShouldSell(profit, liquid)
             THEN IF ~ok THEN Outcome(t2, tr, order)
                  ELSE Outcome([t2 EXCEPT !.position_status = "PENDING_SELL",
                                          !.volume = Zero, !.total_cost = Zero,
                                          !.last_updated = stamp],
                               record_trade(tr, stock, "SELL", cur, t.volume,
                                            t.total_cost, profit, stamp),
                               order)
        ELSE Outcome(t2, tr, NoOrder)

\* StockTrader.sell_stock(xch_price, liquid)
sell_stock(t, stock, tr, xp, liquid, q, ok, stamp) ==
    LET cur == Rat(q[1])
        t1 == [t EXCEPT !.current_price = cur]
        request_xch == RDiv(RMul(t.volume, cur), xp)
        profit == RSub(RDiv(request_xch, t.total_cost), One)
        t2 == [t1 EXCEPT !.profit = profit]
        order == [side |-> "SELL", request |-> request_xch, offer |-> t.volume,
                  accepted |-> ok]
    IN  IF cur = Zero THEN Outcome(t1, tr, NoOrder)
        ELSE IF t.total_cost = Zero
             THEN [Outcome(t1, tr, NoOrder) EXCEPT !.raised = TRUE]
        ELSE IF ShouldSell(profit, liquid)
             THEN IF ~ok THEN Outcome(t2, tr, order)
                  ELSE Outcome([t2 EXCEPT !.position_status = "PENDING_SELL",
                                          !.last_updated = stamp],
                               record_trade(tr, stock, "SELL", cur, t.volume,
                                            t.total_cost, profit, stamp),
                               order)
        ELSE Outcome(t2, tr, NoOrder)

\* last_trade[5] / last_trade[4]: the price implied by the last trade
LastPrice(last_trade) == RDiv(last_trade.amount, last_trade.volume)

\* (last_price - current_price / xch_price) / last_price
DropPercentage(last_price, cur, xp) == RDiv(RSub(last_price, RDiv(cur, xp)), last_price)

\* Mutant of StopLoss: `or` for `and`.
StopLoss_either(buy_count, profit) ==
    buy_count = MAX_BUY_TIMES \/ RLt(profit, RNeg(MAX_LOSS_PERCENTAGE))

\* Mutant of ShouldRepurchase: `<=` for `<`.
ShouldRepurchase_atMax(drop_percentage, buy_count) ==
    RGeq(drop_percentage, DCA_PERCENTAGE) /\ buy_count <= MAX_BUY_TIMES

\* handle_price_drop line 96: the stop-loss condition.
StopLoss(buy_count, profit) ==
    buy_count = MAX_BUY_TIMES /\ RLt(profit, RNeg(MAX_LOSS_PERCENTAGE))

\* handle_price_drop line 109: the DCA condition.
ShouldRepurchase(drop_percentage, buy_count) ==
    RGeq(drop_percentage, DCA_PERCENTAGE) /\ buy_count < MAX_BUY_TIMES

\* Mutant of handle_price_drop: the stop-loss sale is not recorded.
handle_price_drop_noRecord(t, stock, tr, xp, q, ok, stamp) ==
    LET cur == Rat(q[2])
        t1 == [t EXCEPT !.current_price = cur]
        profit == ProfitOf(t.volume, cur, xp, t.total_cost)
        t2 == [t1 EXCEPT !.profit = profit]
        last == get_last_trade(tr, stock)
        last_price == LastPrice(last[1])
        drop_percentage == DropPercentage(last_price, cur, xp)
        request_xch == RDiv(RMul(t.volume, cur), xp)
        order == [side |-> "SELL", request |-> request_xch, offer |-> t.volume,
                  accepted |-> ok]
    IN  IF cur = Zero THEN Outcome(t1, tr, NoOrder)
        ELSE IF t.total_cost = Zero
             THEN [Outcome(t1, tr, NoOrder) EXCEPT !.raised = TRUE]
        ELSE IF last = <<>> \/ last[1].volume = Zero \/ last_price = Zero
             THEN [Outcome(t2, tr, NoOrder) EXCEPT !.raised = TRUE]
        ELSE IF StopLoss(t.buy_count, profit)
             THEN IF ~ok THEN Outcome(t2, tr, order)
                  ELSE Outcome([t2 EXCEPT !.position_status = "PENDING_SELL",
                                          !.last_updated = stamp],
                               tr, order)
        ELSE IF ShouldRepurchase(drop_percentage, t.buy_count)
             THEN [Outcome(t2, tr, NoOrder) EXCEPT !.repurchase = TRUE]
        ELSE Outcome(t2, tr, NoOrder)

\* StockTrader.handle_price_drop(xch_price), up to the call of buy_stock:
\* repurchase says that the call goes on to buy_stock (line 111).
handle_price_drop(t, stock, tr, xp, q, ok, stamp) ==
    LET cur == Rat(q[2])
        t1 == [t EXCEPT !.current_price = cur]
        profit == ProfitOf(t.volume, cur, xp, t.total_cost)
        t2 == [t1 EXCEPT !.profit = profit]
        last == get_last_trade(tr, stock)
        last_price == LastPrice(last[1])
        drop_percentage == DropPercentage(last_price, cur, xp)
        request_xch == RDiv(RMul(t.volume, cur), xp)
        order == [side |-> "SELL", request |-> request_xch, offer |-> t.volume,
                  accepted |-> ok]
    IN  IF cur = Zero THEN Outcome(t1, tr, NoOrder)
        ELSE IF t.total_cost = Zero
             THEN [Outcome(t1, tr, NoOrder) EXCEPT !.raised = TRUE]
        ELSE IF last = <<>> \/ last[1].volume = Zero \/ last_price = Zero
             THEN [Outcome(t2, tr, NoOrder) EXCEPT !.raised = TRUE]
        ELSE IF StopLoss(t.buy_count, profit)
             THEN IF ~ok THEN Outcome(t2, tr, order)
                  ELSE Outcome([t2 EXCEPT !.position_status = "PENDING_SELL",
                                          !.last_updated = stamp],
                               record_trade(tr, stock, "SELL", cur, t.volume,
                                            t.total_cost, profit, stamp),
                               order)
        ELSE IF ShouldRepurchase(drop_percentage, t.buy_count)
             THEN [Outcome(t2, tr, NoOrder) EXCEPT !.repurchase = TRUE]
        ELSE Outcome(t2, tr, NoOrder)

\* The else branch of the loop (lines 134-139): price-only refresh.
refresh_price(t, xp, q) ==
    LET cur == Rat(q[2])
        t1 == [t EXCEPT !.current_price = cur]
    IN  IF cur = Zero THEN t1
        ELSE IF RGt(t.total_cost, Zero)
             THEN [t1 EXCEPT !.profit = ProfitOf(t.volume, cur, xp, t.total_cost)]
        ELSE t1

\* ------------------------------------------------------- trading loop
NoStep == [kind |-> "none", sym |-> TRADING_SYMBOLS[1], pre |-> NewTrader,
           market |-> "unasked", trades |-> <<>>, orders |-> 0]
NoCall == [op |-> "none", sym |-> TRADING_SYMBOLS[1], pre |-> NewTrader, trades |-> <<>>,
           row |-> PositionRow(NewTrader, 0), quote |-> <<0, 0>>, order |-> NoOrder]

\* The record kept of one call of a Position operation.
CallOf(op, sym, q, order) ==
    [op |-> op, sym |-> sym, pre |-> traders[sym], trades |-> trades,
     row |-> positions[sym], quote |-> q, order |-> order]

\* The gateway's count of accepted orders after `order` was answered.
Count(acc, sym, order) ==
    IF ~order.accepted THEN acc
    ELSE IF order.side = "BUY"
         THEN [acc EXCEPT ![sym].buys = @ + 1, ![sym].funded = RAdd(@, order.offer)]
    ELSE IF order.side = "SELL" THEN [acc EXCEPT ![sym].sells = @ + 1]
    ELSE acc

Submitted(order) == IF order.side = "NONE" THEN 0 ELSE 1

\* Nothing was persisted, skipped or reconciled yet in this tick.
NoTick == [persists |-> [s \in Symbols |-> 0], skips |-> [s \in Symbols |-> 0],
           reconciles |-> 0]

\* Mutant of NextTrader: lines 147-150 indented into the body of the for
\* loop, so the loop is left after any trader.
NextTrader_insideLoop(i) == "reconcile"

\* The statement after the body of the for loop for trader idx.
NextTrader(i) == IF i = Len(TRADING_SYMBOLS) THEN "reconcile" ELSE "dispatch"

\* execute_trading line 116: the traders are built, load_position finds no
\* row in an empty store and create_position writes one.
Init ==
    /\ traders = [s \in Symbols |-> NewTrader]
    /\ positions = [s \in Symbols |-> PositionRow(NewTrader, 0)]
    /\ trades = <<>>
    /\ xch_price = 0
    /\ idx = 1
    /\ pc = "start"
    /\ now = 0
    /\ step = NoStep
    /\ call = NoCall
    /\ accepted = [s \in Symbols |-> [buys |-> 0, sells |-> 0, funded |-> Zero]]
    /\ slept = 0
    /\ ticklog = NoTick

\* Mutant of XchPriceFail: the `continue` of line 123 is missing, the tick
\* goes on into the for loop.
XchPriceFail_fallsThrough ==
    /\ pc = "start"
    /\ now < MaxTicks
    /\ xch_price' = 0
    /\ now' = now + 1
    /\ slept' = 0
    /\ idx' = 1
    /\ pc' = "dispatch"
    /\ UNCHANGED <<traders, positions, trades, step, call, accepted, ticklog>>

\* Lines 119-123: get_xch_price returned None; sleep and start over.
XchPriceFail ==
    /\ pc = "start"
    /\ now < MaxTicks
    /\ xch_price' = 0
    /\ now' = now + 1
    /\ slept' = LongSleep
    /\ pc' = "sleep"
    /\ UNCHANGED <<traders, positions, trades, idx, step, call, accepted, ticklog>>

\* Lines 119-125: a reference price was obtained; enter the for loop.
XchPriceOk ==
    /\ pc = "start"
    /\ now < MaxTicks
    /\ \E x \in XchPrices : xch_price' = x
    /\ now' = now + 1
    /\ idx' = 1
    /\ pc' = "dispatch"
    /\ UNCHANGED <<traders, positions, trades, step, call, accepted, slept, ticklog>>

\* Mutant of Tradable: the status is not looked at.
Tradable_anyStatus(status, market_open) == market_open

\* Mutant of Tradable: the market is not looked at.
Tradable_anyMarket(status, market_open) == status = "TRADABLE"

\* Line 126: the condition of the trading branch; market_open is the answer
\* of is_market_open, which `and` asks only of a TRADABLE position.
Tradable(status, market_open) == status = "TRADABLE" /\ market_open

MarketSeen(status, market_open) ==
    IF status # "TRADABLE" THEN "unasked" ELSE IF market_open THEN "open" ELSE "closed"

\* Lines 126-128: TRADABLE, market open, flat: buy_stock.
LoopBuy ==
    /\ pc = "dispatch"
    /\ LET s == TRADING_SYMBOLS[idx]
           t == traders[s]
       IN  /\ t.volume = Zero
           /\ \E market_open \in BOOLEAN, q \in Quotes, ok \in BOOLEAN :
                /\ Tradable(t.position_status, market_open)
                /\ LET r == buy_stock(t, s, trades, BUY_XCH, Rat(xch_price), q, ok, now)
                   IN  /\ traders' = [traders EXCEPT ![s] = r.t]
                       /\ trades' = r.trades
                       /\ call' = CallOf("buy", s, q, r.order)
                       /\ accepted' = Count(accepted, s, r.order)
                       /\ step' = [kind |-> "trade", sym |-> s, pre |-> t,
                                   market |-> MarketSeen(t.position_status, market_open),
                                   trades |-> trades, orders |-> Submitted(r.order)]
    /\ pc' = "persist"
    /\ UNCHANGED <<positions, xch_price, idx, now, slept, ticklog>>

\* Lines 126, 129-131: TRADABLE, market open, holding: sell_stock.
LoopSell ==
    /\ pc = "dispatch"
    /\ LET s == TRADING_SYMBOLS[idx]
           t == traders[s]
       IN  /\ RGt(t.volume, Zero)
           /\ \E market_open \in BOOLEAN, q \in Quotes, ok \in BOOLEAN :
                /\ Tradable(t.position_status, market_open)
                /\ LET r == sell_stock(t, s, trades, Rat(xch_price), FALSE, q, ok, now)
                   IN  /\ traders' = [traders EXCEPT ![s] = r.t]
                       /\ trades' = r.trades
                       /\ call' = CallOf("sell", s, q, r.order)
                       /\ accepted' = Count(accepted, s, r.order)
                       /\ step' = [kind |-> "trade", sym |-> s, pre |-> t,
                                   market |-> MarketSeen(t.position_status, market_open),
                                   trades |-> trades, orders |-> Submitted(r.order)]
                       /\ pc' = IF r.raised THEN "crashed"
                                ELSE IF r.t.position_status = "TRADABLE" THEN "drawdown"
                                ELSE "persist"
    /\ UNCHANGED <<positions, xch_price, idx, now, slept, ticklog>>

\* Lines 131-132: still TRADABLE after sell_stock: handle_price_drop.
LoopDrawdown ==
    /\ pc = "drawdown"
    /\ LET s == TRADING_SYMBOLS[idx]
           t == traders[s]
       IN  \E q \in Quotes, ok \in BOOLEAN :
             LET r == handle_price_drop(t, s, trades, Rat(xch_price), q, ok, now)
             IN  /\ traders' = [traders EXCEPT ![s] = r.t]
                 /\ trades' = r.trades
                 /\ call' = CallOf("drawdown", s, q, r.order)
                 /\ accepted' = Count(accepted, s, r.order)
                 /\ step' = [step EXCEPT !.orders = @ + Submitted(r.order)]
                 /\ pc' = IF r.raised THEN "crashed"
                          ELSE IF r.repurchase THEN "repurchase"
                          ELSE "persist"
    /\ UNCHANGED <<positions, xch_price, idx, now, slept, ticklog>>

\* Line 111: the buy_stock that handle_price_drop calls.
Repurchase ==
    /\ pc = "repurchase"
    /\ LET s == TRADING_SYMBOLS[idx]
           t == traders[s]
       IN  \E q \in Quotes, ok \in BOOLEAN :
             LET r == buy_stock(t, s, trades, BUY_XCH, Rat(xch_price), q, ok, now)
             IN  /\ traders' = [traders EXCEPT ![s] = r.t]
                 /\ trades' = r.trades
                 /\ call' = CallOf("buy", s, q, r.order)
                 /\ accepted' = Count(accepted, s, r.order)
                 /\ step' = [step EXCEPT !.orders = @ + Submitted(r.order)]
    /\ pc' = "persist"
    /\ UNCHANGED <<positions, xch_price, idx, now, slept, ticklog>>

\* Lines 126, 133-139: the position is pending, or is_market_open said no.
\* is_market_open is only asked when the status is TRADABLE.
LoopRefresh ==
    /\ pc = "dispatch"
    /\ LET s == TRADING_SYMBOLS[idx]
           t == traders[s]
       IN  \E market_open \in BOOLEAN, q \in Quotes :
             LET t1 == refresh_price(t, Rat(xch_price), q)
             IN  /\ ~Tradable(t.position_status, market_open)
                 /\ traders' = [traders EXCEPT ![s] = t1]
                 /\ call' = CallOf("refresh", s, q, NoOrder)
                 /\ step' = [kind |-> "refresh", sym |-> s, pre |-> t,
                             market |-> MarketSeen(t.position_status, market_open),
                             trades |-> trades, orders |-> 0]
                 \* line 137: `continue` skips update_position
                 /\ IF t1.current_price = Zero
                    THEN /\ pc' = NextTrader(idx)
                         /\ idx' = IF idx = Len(TRADING_SYMBOLS) THEN idx ELSE idx + 1
                         /\ ticklog' = [ticklog EXCEPT !.skips[s] = @ + 1]
                    ELSE /\ pc' = "persist"
                         /\ idx' = idx
                         /\ ticklog' = ticklog
    /\ UNCHANGED <<positions, trades, xch_price, now, accepted, slept>>

\* Lines 141-145: log, then update_position(trader).  The iteration is
\* over, so its history records are cleared.
Persist ==
    /\ pc = "persist"
    /\ LET s == TRADING_SYMBOLS[idx]
       IN  /\ positions' = [positions EXCEPT ![s] = PositionRow(traders[s], now)]
           /\ ticklog' = [ticklog EXCEPT !.persists[s] = @ + 1]
    /\ pc' = NextTrader(idx)
    /\ idx' = IF idx = Len(TRADING_SYMBOLS) THEN idx ELSE idx + 1
    /\ step' = NoStep
    /\ call' = NoCall
    /\ UNCHANGED <<traders, trades, xch_price, now, accepted, slept>>

\* chia.check_pending_positions(traders, logger): every pending position
\* that is confirmed goes back to TRADABLE; a confirmed sell is either left
\* as it is or liquidated (holdings, cost and buy count reset), the
\* bookkeeping being left open by the description of reconcilePending.
check_pending_positions(ts, confirmed, liquidate) ==
    [s \in Symbols |->
        IF s \notin confirmed \/ ts[s].position_status = "TRADABLE" THEN ts[s]
        ELSE IF ts[s].position_status = "PENDING_SELL" /\ liquidate
             THEN [ts[s] EXCEPT !.position_status = "TRADABLE", !.volume = Zero,
                                !.total_cost = Zero, !.avg_price = Zero,
                                !.buy_count = 0]
        ELSE [ts[s] EXCEPT !.position_status = "TRADABLE"]]

\* Lines 146-148: reconcile the batch.  The call returns, or raises after
\* the transitions it made so far (raised); an exception goes to the
\* handler of line 149.
Reconcile ==
    /\ pc = "reconcile"
    /\ \E confirmed \in SUBSET {s \in Symbols : traders[s].position_status # "TRADABLE"},
          liquidate \in BOOLEAN, raised \in BOOLEAN :
         /\ traders' = check_pending_positions(traders, confirmed, liquidate)
         /\ pc' = IF raised THEN "except" ELSE "summary"
    /\ ticklog' = [ticklog EXCEPT !.reconciles = @ + 1]
    /\ UNCHANGED <<positions, trades, xch_price, idx, now, step, call, accepted, slept>>

\* Lines 149-150: `except Exception`: the error is logged, the tick goes on.
ReconcileFailed ==
    /\ pc = "except"
    /\ pc' = "summary"
    /\ UNCHANGED <<traders, positions, trades, xch_price, idx, now, step, call, accepted,
                   slept, ticklog>>

\* Lines 151-159: balance summary, then time.sleep(60) if is_market_open
\* says yes, time.sleep(300) otherwise.  The tick is over.
Summary ==
    /\ pc = "summary"
    /\ \E market_open \in BOOLEAN : slept' = IF market_open THEN ShortSleep ELSE LongSleep
    /\ pc' = "sleep"
    /\ ticklog' = NoTick
    /\ UNCHANGED <<traders, positions, trades, xch_price, idx, now, step, call, accepted>>

\* time.sleep returns: `continue` (line 123) or the end of the loop body
\* leads back to `while True` (line 118).
Wake ==
    /\ pc = "sleep"
    /\ pc' = "start"
    /\ slept' = 0
    /\ UNCHANGED <<traders, positions, trades, xch_price, idx, now, step, call, accepted,
                   ticklog>>

Next ==
    \/ XchPriceFail
    \/ XchPriceOk
    \/ LoopBuy
    \/ LoopSell
    \/ LoopDrawdown
    \/ Repurchase
    \/ LoopRefresh
    \/ Persist
    \/ Reconcile
    \/ ReconcileFailed
    \/ Summary
    \/ Wake

Spec == Init /\ [][Next]_vars

\* ------------------------------------------- a run over a kept store
\* The store an earlier run left behind: that run bought the symbol k times
\* at the ask 50 and every order was confirmed; the symbol was put on the
\* sell-only list before this run.
RECURSIVE StoredTrader(_)
StoredTrader(k) ==
    IF k = 0 THEN NewTrader
    ELSE [Bought(StoredTrader(k - 1), Rat(50), RDiv(RMul(BUY_XCH, Rat(100)), Rat(50)),
                 BUY_XCH, Rat(100), 0)
            EXCEPT !.position_status = "TRADABLE"]

RECURSIVE StoredTrades(_, _)
StoredTrades(stock, k) ==
    IF k = 0 THEN <<>>
    ELSE record_trade(StoredTrades(stock, k - 1), stock, "BUY", Rat(50),
                      RDiv(RMul(BUY_XCH, Rat(100)), Rat(50)), BUY_XCH, Zero, 0)

\* The number of buys the kept position has behind it.
StoredBuys == 1

\* execute_trading line 116 over the kept store: load_position (lines
\* 30-37) finds the row of the sell-only symbol and copies it into the
\* object; the other symbols are new.  The clock has moved on since the
\* stored rows were stamped.
InitLoaded ==
    /\ LET k == StoredBuys IN
         /\ traders = [s \in Symbols |->
                          IF s \in SELL_ONLY_SYMBOLS THEN StoredTrader(k) ELSE NewTrader]
         /\ positions = [s \in Symbols |->
                          IF s \in SELL_ONLY_SYMBOLS THEN PositionRow(StoredTrader(k), 0)
                          ELSE PositionRow(NewTrader, 0)]
         /\ trades = StoredTrades(CHOOSE s \in SELL_ONLY_SYMBOLS : TRUE, k)
    /\ xch_price = 0
    /\ idx = 1
    /\ pc = "start"
    /\ now = 1
    /\ step = NoStep
    /\ call = NoCall
    /\ accepted = [s \in Symbols |-> [buys |-> 0, sells |-> 0, funded |-> Zero]]
    /\ slept = 0
    /\ ticklog = NoTick

SpecLoaded == InitLoaded /\ [][Next]_vars

\* ------------------------------------------------------------- claims
Pending == {"PENDING_BUY", "PENDING_SELL"}

\* C1: the status of a position changes only from TRADABLE to PENDING_BUY in
\* a step whose buy order was accepted, from TRADABLE to PENDING_SELL in a
\* step whose sell or stop-loss order was accepted, and from a PENDING status
\* to TRADABLE in the reconciliation step; the loop and the Position
\* operations never change a PENDING status, and no step goes from one
\* PENDING status to the other.
C1_StatusTransitions ==
    [][\A s \in Symbols :
        LET a == traders[s].position_status
            b == traders'[s].position_status
        IN  a # b =>
              \/ /\ a = "TRADABLE" /\ b = "PENDING_BUY"
                 /\ pc \in {"dispatch", "repurchase"}
                 /\ call'.op = "buy" /\ call'.sym = s
                 /\ call'.order.side = "BUY" /\ call'.order.accepted
              \/ /\ a = "TRADABLE" /\ b = "PENDING_SELL"
                 /\ pc \in {"dispatch", "drawdown"}
                 /\ call'.op \in {"sell", "drawdown"} /\ call'.sym = s
                 /\ call'.order.side = "SELL" /\ call'.order.accepted
              \/ /\ a \in Pending /\ b = "TRADABLE"
                 /\ pc = "reconcile"
      ]_vars

\* A position that was bought, was sold and is TRADABLE again: all three
\* transitions were taken.
C1_Witness ==
    \E s \in Symbols : /\ accepted[s].buys > 0 /\ accepted[s].sells > 0
                       /\ traders[s].position_status = "TRADABLE"

\* C2: an order is submitted only in a loop iteration that found the
\* position TRADABLE and the market open; an iteration for a pending
\* position or a closed market submits no order, appends no trade row and
\* changes at most current_price and profit.
C2_OrdersOnlyTradableOpen ==
    step.kind # "none" =>
        /\ step.orders > 0 =>
             step.pre.position_status = "TRADABLE" /\ step.market = "open"
        /\ (step.pre.position_status \in Pending \/ step.market # "open") =>
             /\ step.orders = 0
             /\ call.order.side = "NONE"
             /\ trades = step.trades
             /\ [traders[step.sym] EXCEPT !.current_price = step.pre.current_price,
                                          !.profit = step.pre.profit] = step.pre

\* A pending position whose price and profit were refreshed.
C2_Witness ==
    /\ step.kind = "refresh"
    /\ step.pre.position_status = "PENDING_SELL"
    /\ traders[step.sym].current_price \notin {Zero, step.pre.current_price}
    /\ traders[step.sym].profit # step.pre.profit

\* holdings * bid / referencePrice / totalCost - 1 for the sell call on record
SellProfit ==
    RSub(RDiv(RDiv(RMul(call.pre.volume, Rat(call.quote[1])), Rat(xch_price)),
              call.pre.total_cost), One)

\* C3 as stated: a sell call with a non-zero bid and a profit below the
\* threshold leaves every field of the position and the ledger as they were.
C3_Original ==
    (call.op = "sell" /\ call.quote[1] # 0 /\ RLt(SellProfit, MIN_PROFIT)) =>
        /\ call.order.side = "NONE"
        /\ trades = call.trades
        /\ traders[call.sym] = call.pre

\* C3 as amended: sell submits an order only when the profit reaches the
\* threshold (the loop never forces liquidation); a sell call with a non-zero
\* bid and a profit below the threshold submits nothing, leaves the ledger
\* and the status TRADABLE, and changes no field other than current_price,
\* which becomes the bid, and profit, which becomes the computed ratio.
C3_SellBelowThreshold ==
    call.op = "sell" =>
        /\ call.order.side # "NONE" => RGeq(SellProfit, MIN_PROFIT)
        /\ (call.quote[1] # 0 /\ RLt(SellProfit, MIN_PROFIT)) =>
             /\ call.order.side = "NONE"
             /\ trades = call.trades
             /\ traders[call.sym].position_status = "TRADABLE"
             /\ traders[call.sym] = [call.pre EXCEPT !.current_price = Rat(call.quote[1]),
                                                    !.profit = SellProfit]

\* A declined sell: the bid is below the price of the last buy.
C3_Witness ==
    /\ call.op = "sell" /\ call.quote[1] # 0 /\ RLt(SellProfit, MIN_PROFIT)
    /\ call.order.side = "NONE"
    /\ traders[call.sym].current_price # call.pre.current_price

\* C4: buy_stock changes nothing when the ask price is 0 or the gateway
\* rejects the order: the object and the ledger are as before the call, and
\* with a price of 0 no order is submitted.
C4_BuyNoOp ==
    (call.op = "buy" /\ (call.quote[2] = 0 \/ ~call.order.accepted)) =>
        /\ traders[call.sym] = call.pre
        /\ trades = call.trades
        /\ positions[call.sym] = call.row
        /\ call.quote[2] = 0 => call.order.side = "NONE"

\* A repurchase the gateway rejected, after the price fell.
C4_Witness ==
    /\ call.op = "buy" /\ call.order.side = "BUY" /\ ~call.order.accepted
    /\ RGt(call.pre.volume, Zero)
    /\ Rat(call.quote[2]) # call.pre.current_price

\* The price the call on record read from its quote: sell_stock reads the
\* bid, handle_price_drop and the refresh read the ask.
QuoteRead == IF call.op = "sell" THEN call.quote[1] ELSE call.quote[2]

\* C5 as stated: when the quote is the sentinel 0 during sell_stock,
\* handle_price_drop or the price-only refresh, every field of the position,
\* the persisted row and the ledger are as before the operation.
C5_Original ==
    (call.op \in {"sell", "drawdown", "refresh"} /\ QuoteRead = 0) =>
        /\ traders[call.sym] = call.pre
        /\ positions[call.sym] = call.row
        /\ trades = call.trades

\* The sell order of the call on record was rejected by the gateway.
SellRejected ==
    call.op \in {"sell", "drawdown"} /\ call.order.side = "SELL" /\ ~call.order.accepted

\* C6 as stated: a rejected sell order leaves every field of the position
\* as before the call, appends no trade row and leaves the status TRADABLE.
C6_Original ==
    SellRejected =>
        /\ traders[call.sym] = call.pre
        /\ trades = call.trades
        /\ traders[call.sym].position_status = "TRADABLE"

\* C6 as amended: a rejected sell order (of sell_stock or of the stop-loss
\* branch) appends no trade row, leaves the persisted row and the status
\* TRADABLE, and leaves every field of the position as before the call except
\* current_price and profit, which were refreshed from the quote before the
\* order was sent.
C6_RejectedSell ==
    SellRejected =>
        /\ trades = call.trades
        /\ positions[call.sym] = call.row
        /\ traders[call.sym].position_status = "TRADABLE"
        /\ traders[call.sym].current_price = Rat(QuoteRead)
        /\ [traders[call.sym] EXCEPT !.current_price = call.pre.current_price,
                                     !.profit = call.pre.profit] = call.pre

\* A rejected stop-loss order after the price has moved.
C6_Witness ==
    /\ SellRejected /\ call.op = "drawdown"
    /\ traders[call.sym].current_price # call.pre.current_price

\* C7: as long as no sell order of a position was accepted, buy_count is
\* the number of buy orders the gateway accepted for it and total_cost is the
\* sum of their funding amounts.
C7_BuyCountAndCost ==
    \A s \in Symbols :
        accepted[s].sells = 0 =>
            /\ traders[s].buy_count = accepted[s].buys
            /\ traders[s].total_cost = accepted[s].funded

\* Two accepted buys, the second a repurchase, and no sell.
C7_Witness ==
    \E s \in Symbols :
        /\ accepted[s].buys = 2 /\ accepted[s].sells = 0
        /\ traders[s].buy_count = 2
        /\ traders[s].total_cost = RAdd(BUY_XCH, BUY_XCH)

\* C8: whenever a position holds something, avg_price is total_cost / volume.
C8_AvgPrice ==
    \A s \in Symbols :
        RGt(traders[s].volume, Zero) =>
            traders[s].avg_price = RDiv(traders[s].total_cost, traders[s].volume)

\* A position built by two buys at different prices.
C8_Witness ==
    \E s \in Symbols :
        /\ traders[s].buy_count = 2
        /\ Len(trades) = 2
        /\ trades[1].price # trades[2].price
        /\ RGt(traders[s].volume, Zero)

\* volume * ask / referencePrice / totalCost - 1 for the call on record
DrawdownProfit ==
    RSub(RDiv(RDiv(RMul(call.pre.volume, Rat(call.quote[2])), Rat(xch_price)),
              call.pre.total_cost), One)

\* C9: handle_price_drop submits a sell order only when buy_count is
\* MAX_BUY_TIMES and the profit is below -MAX_LOSS_PERCENTAGE at that call.
C9_StopLossOnlyWhenBoth ==
    (call.op = "drawdown" /\ call.order.side = "SELL") =>
        /\ call.pre.buy_count = MAX_BUY_TIMES
        /\ RLt(DrawdownProfit, RNeg(MAX_LOSS_PERCENTAGE))
        /\ traders[call.sym].profit = DrawdownProfit

\* A stop-loss order that was accepted.
C9_Witness ==
    /\ call.op = "drawdown" /\ call.order.side = "SELL" /\ call.order.accepted
    /\ traders[call.sym].position_status = "PENDING_SELL"

\* (lastPrice - ask / referencePrice) / lastPrice for the call on record,
\* lastPrice being amount / volume of the symbol's last trade row
DrawdownDrop ==
    LET own == {i \in 1..Len(call.trades) : call.trades[i].stock = call.sym}
        row == call.trades[CHOOSE i \in own : \A j \in own : j <= i]
        last_price == RDiv(row.amount, row.volume)
    IN  RDiv(RSub(last_price, RDiv(Rat(call.quote[2]), Rat(xch_price))), last_price)

\* C10: handle_price_drop goes on to buy only when the drop is at least
\* DCA_PERCENTAGE and buy_count is below MAX_BUY_TIMES, and then it has
\* submitted no stop-loss order in the same call; the repurchase offers the
\* configured funding increment.
C10_RepurchaseOnlyOnDrop ==
    /\ pc = "repurchase" =>
         /\ call.op = "drawdown"
         /\ call.order.side = "NONE"
         /\ RGeq(DrawdownDrop, DCA_PERCENTAGE)
         /\ traders[call.sym].buy_count < MAX_BUY_TIMES
    /\ (call.op = "buy" /\ RGt(call.pre.volume, Zero) /\ call.order.side = "BUY") =>
         /\ call.order.offer = BUY_XCH
         /\ call.pre.buy_count < MAX_BUY_TIMES

\* A repurchase that was accepted.
C10_Witness ==
    /\ call.op = "buy" /\ RGt(call.pre.volume, Zero)
    /\ call.order.side = "BUY" /\ call.order.accepted

\* The stored row of s carries the trading fields of the object.
RowMatches(s) ==
    /\ positions[s].volume = traders[s].volume
    /\ positions[s].buy_count = traders[s].buy_count
    /\ positions[s].last_buy_price = traders[s].last_buy_price
    /\ positions[s].total_cost = traders[s].total_cost
    /\ positions[s].avg_price = traders[s].avg_price
    /\ positions[s].current_price = traders[s].current_price
    /\ positions[s].profit = traders[s].profit
    /\ positions[s].status = traders[s].position_status

\* C11 as stated: when the for loop of a tick with a reference price is
\* over, every position was persisted exactly once in the tick, whatever its
\* branch and the outcome of its quote lookup, and its stored row carries
\* the trading fields of the object.
C11_Original ==
    pc = "reconcile" => \A s \in Symbols : ticklog.persists[s] = 1 /\ RowMatches(s)

\* C11: in a tick with a reference price every position is processed once
\* and persisted at most once; when the for loop is over each position was
\* persisted exactly once, except the one whose price-only refresh read the
\* quote 0 (line 137), which was not persisted in the tick; only the refresh
\* branch skips; a persisted row is stamped in the tick and carries the
\* trading fields of the object until reconciliation.
C11_PersistedUnlessSkipped ==
    /\ \A s \in Symbols : ticklog.persists[s] + ticklog.skips[s] <= 1
    /\ pc \in {"reconcile", "except", "summary"} =>
         \A s \in Symbols : ticklog.persists[s] + ticklog.skips[s] = 1
    /\ (step.kind # "none" /\ ticklog.skips[step.sym] = 1) =>
         /\ step.kind = "refresh"
         /\ call.op = "refresh" /\ call.quote[2] = 0
         /\ positions[step.sym] = call.row
    /\ pc \notin {"except", "summary"} =>
         \A s \in Symbols :
            /\ ticklog.persists[s] = 1 =>
                 RowMatches(s) /\ positions[s].last_updated = now
            /\ ticklog.skips[s] = 1 => traders[s].current_price = Zero

\* The loop is over with one position skipped on a failed quote and the
\* other persisted while its order is pending.
C11_Witness ==
    /\ pc = "reconcile"
    /\ \E s, u \in Symbols :
         /\ ticklog.skips[s] = 1 /\ ticklog.persists[s] = 0
         /\ ticklog.persists[u] = 1 /\ traders[u].position_status \in Pending

\* C12: a tick whose reference-price fetch failed is a no-op: the step from
\* the top of the loop that got no price changes no position, fetches no
\* quote, submits no order, persists nothing and calls no reconciliation;
\* it sleeps the long interval, and the sleep leads back to the top of the
\* loop.
C12_FailedFetchIsNoOp ==
    [][/\ (pc = "start" /\ xch_price' = 0) =>
            /\ UNCHANGED <<traders, positions, trades, call, step, accepted, ticklog>>
            /\ pc' = "sleep"
            /\ slept' = LongSleep
       /\ pc = "sleep" => pc' = "start"
      ]_vars

\* The loop is back at its top after a failed fetch that found an order
\* pending.
C12_Witness ==
    /\ pc = "start" /\ xch_price = 0 /\ now >= 2
    /\ \E s \in Symbols : traders[s].position_status \in Pending

\* Where the tick stands with respect to its reconciliation: none inside
\* the for loop; at the call every position was processed (persisted, or
\* skipped on a failed quote); after it, one call.
ReconcileAfterAll ==
    /\ pc \in {"dispatch", "drawdown", "repurchase", "persist"} => ticklog.reconciles = 0
    /\ pc = "reconcile" =>
         /\ ticklog.reconciles = 0
         /\ \A s \in Symbols : ticklog.persists[s] + ticklog.skips[s] = 1
    /\ pc \in {"except", "summary"} =>
         /\ ticklog.reconciles = 1
         /\ \A s \in Symbols : ticklog.persists[s] + ticklog.skips[s] = 1

\* C13: in a tick with a reference price check_pending_positions is called
\* exactly once, for all traders, after the for loop has processed every
\* position, a failed quote lookup included; an exception it raises is
\* caught: the handler leads to the summary, the summary to the sleep of 60
\* or 300, and the sleep to the next tick.
C13_ReconcileOncePerTick ==
    [][/\ ReconcileAfterAll'
       /\ ticklog'.reconciles # ticklog.reconciles =>
            \/ pc = "reconcile" /\ pc' \in {"except", "summary"}
            \/ pc = "summary" /\ ticklog'.reconciles = 0
       /\ pc = "except" =>
            /\ pc' = "summary"
            /\ UNCHANGED <<traders, positions, trades, ticklog>>
       /\ pc = "summary" => pc' = "sleep" /\ slept' \in {ShortSleep, LongSleep}
       /\ pc = "sleep" => pc' = "start" /\ slept' = 0
      ]_vars

\* check_pending_positions has raised in a tick in which a quote lookup
\* failed.
C13_Witness ==
    /\ pc = "except"
    /\ \E s \in Symbols : ticklog.skips[s] = 1

\* C14: in every reachable state the buy count of every position, in the
\* object and in its stored row, is between 0 and MAX_BUY_TIMES.
C14_BuyCountBounded ==
    \A s \in Symbols :
        /\ traders[s].buy_count \in 0..MAX_BUY_TIMES
        /\ positions[s].buy_count \in 0..MAX_BUY_TIMES

\* A position at the maximum whose price dropped by the DCA percentage:
\* handle_price_drop returned without a repurchase.
C14_Witness ==
    /\ call.op = "drawdown" /\ pc = "persist"
    /\ call.pre.buy_count = MAX_BUY_TIMES
    /\ call.quote[2] # 0
    /\ RGeq(DrawdownDrop, DCA_PERCENTAGE)
    /\ call.order.side = "NONE"

\* C15: from an empty store, in every reachable state a position without
\* holdings has no cost basis and no average price, in the object and in
\* its stored row.
C15_FlatHasNoCost ==
    \A s \in Symbols :
        /\ traders[s].volume = Zero =>
             traders[s].total_cost = Zero /\ traders[s].avg_price = Zero
        /\ positions[s].volume = Zero =>
             positions[s].total_cost = Zero /\ positions[s].avg_price = Zero

\* A position that was bought and sold is flat and TRADABLE again after the
\* reconciliation of its PENDING_SELL.
C15_Witness ==
    \E s \in Symbols :
        /\ accepted[s].buys > 0 /\ accepted[s].sells > 0
        /\ traders[s].position_status = "TRADABLE"
        /\ traders[s].volume = Zero

\* C16: a symbol of SELL_ONLY_SYMBOLS is never handed a buy order, by the
\* buy of a flat position or by the DCA branch: no step raises its volume,
\* total_cost or buy_count or makes it PENDING_BUY, and no buy of it is
\* accepted.
C16_SellOnlyNeverBuys ==
    [][\A s \in SELL_ONLY_SYMBOLS :
         /\ ~RLt(traders[s].volume, traders'[s].volume)
         /\ ~RLt(traders[s].total_cost, traders'[s].total_cost)
         /\ traders'[s].buy_count <= traders[s].buy_count
         /\ traders'[s].position_status # "PENDING_BUY"
         /\ accepted'[s].buys = 0
         /\ call'.sym = s => call'.order.side # "BUY"
      ]_vars

\* A sell-only symbol that was sold before has dropped by the DCA
\* percentage below its maximum of buys: the repurchase reached buy_stock,
\* got a quote and submitted nothing.
C16_Witness ==
    /\ call.op = "buy" /\ call.sym \in SELL_ONLY_SYMBOLS
    /\ RGt(call.pre.volume, Zero) /\ call.pre.buy_count < MAX_BUY_TIMES
    /\ call.quote[2] # 0
    /\ call.order.side = "NONE"
    /\ traders[call.sym] = call.pre
    /\ accepted[call.sym].sells > 0

\* fundingAmount * referencePrice / askPrice for the buy call on record
BuyQuantity == RDiv(RMul(BUY_XCH, Rat(xch_price)), Rat(call.quote[2]))

C18_Original ==
    (call.op = "drawdown" /\ call.order.side = "SELL") =>
        LET bid == Rat(call.quote[1])
            forced == sell_stock(call.pre, call.sym, call.trades, Rat(xch_price), TRUE,
                                 call.quote, call.order.accepted, now)
        IN  /\ call.order.offer = call.pre.volume
            /\ call.order.request = RDiv(RMul(call.pre.volume, bid), Rat(xch_price))
            /\ call.order = forced.order
            /\ call.order.accepted => trades[Len(trades)].price = bid

\* The state right after a sell order of sell_stock or of the stop-loss
\* branch was accepted: apart from current_price and profit the object
\* differs from the one before the call in the status, now PENDING_SELL, and
\* the stamp; the ledger grew by one SELL row of the full holdings.
AcceptedSellFrame ==
    (call.op \in {"sell", "drawdown"} /\ call.order.side = "SELL" /\ call.order.accepted) =>
        LET t == traders[call.sym]
        IN  /\ [t EXCEPT !.current_price = call.pre.current_price,
                         !.profit = call.pre.profit,
                         !.position_status = call.pre.position_status,
                         !.last_updated = call.pre.last_updated] = call.pre
            /\ RGt(t.volume, Zero) /\ RGt(t.total_cost, Zero)
            /\ call.pre.position_status = "TRADABLE"
            /\ t.position_status = "PENDING_SELL"
            /\ t.last_updated = now
            /\ Len(trades) = Len(call.trades) + 1
            /\ SubSeq(trades, 1, Len(call.trades)) = call.trades
            /\ LET row == trades[Len(trades)]
               IN  /\ row.stock = call.sym /\ row.action = "SELL"
                   /\ row.volume = t.volume /\ row.amount = t.total_cost

Rows(s, action) ==
    Cardinality({i \in 1..Len(trades) : trades[i].stock = s /\ trades[i].action = action})

\* The ledger holds one BUY row per accepted buy order and one SELL row per
\* accepted sell order of each symbol, and a row for every position that
\* holds something.
LedgerMatchesOrders ==
    \A s \in Symbols :
        /\ Rows(s, "BUY") = accepted[s].buys
        /\ Rows(s, "SELL") = accepted[s].sells
        /\ RGt(traders[s].volume, Zero) => Rows(s, "BUY") > 0

====
